---- MODULE Spec2Model ----
(***************************************************************************)
(* A model of chainer.optimizer.Optimizer (src/chainer/optimizer.py).      *)
(*                                                                         *)
(* One Optimizer object is driven by one caller.  The caller owns two      *)
(* parameter arrays p1, p2 and their gradient arrays g1, g2; the optimizer *)
(* only holds references to them (names in the heap `mem`) and mutates     *)
(* them in place.  Array elements are exact rationals <<num, den>>;        *)
(* floating-point rounding is not modelled.                                *)
(***************************************************************************)
EXTENDS Integers, Sequences, FiniteSets, TLC

\* ------------------------------------------------------------------ bounds
MaxCalls == 4       \* the caller makes at most MaxCalls method calls

\* --------------------------------------------------------- exact rationals
Abs(x) == IF x < 0 THEN -x ELSE x

RECURSIVE GCD(_, _)
GCD(a, b) == IF b = 0 THEN a ELSE GCD(b, a % b)

Norm(n, d) ==
    LET s == IF d < 0 THEN -1 ELSE 1
        k == GCD(Abs(n), Abs(d))
    IN  <<(s * n) \div k, (s * d) \div k>>

R(n)       == <<n, 1>>
Zero       == R(0)
RAdd(a, b) == Norm(a[1] * b[2] + b[1] * a[2], a[2] * b[2])
RSub(a, b) == Norm(a[1] * b[2] - b[1] * a[2], a[2] * b[2])
RMul(a, b) == Norm(a[1] * b[1], a[2] * b[2])
RDiv(a, b) == Norm(a[1] * b[2], a[2] * b[1])
RLe(a, b)  == a[1] * b[2] <= b[1] * a[2]
RGt(a, b)  == a[1] * b[2] > b[1] * a[2]

\* element-wise vector operations of numpy.ndarray / GPUArray
VAdd(u, v)   == [i \in DOMAIN u |-> RAdd(u[i], v[i])]
VSub(u, v)   == [i \in DOMAIN u |-> RSub(u[i], v[i])]
VScale(c, v) == [i \in DOMAIN v |-> RMul(c, v[i])]
VFill(v, c)  == [i \in DOMAIN v |-> c]

RECURSIVE VDot(_, _)
VDot(u, v) ==
    IF u = <<>> THEN Zero
    ELSE RAdd(RMul(Head(u), Head(v)), VDot(Tail(u), Tail(v)))

\* ----------------------------------------------------------------- arrays
\* dev = 0 is host memory (numpy.ndarray); dev >= 1 is a GPU (cuda.GPUArray)
CPU     == 0
Devices == {0, 1, 2}
IsGPUArray(a) == a.dev # CPU
IsNdarray(a)  == a.dev = CPU

Pairs == {1, 2}
PName(i) == IF i = 1 THEN "p1" ELSE "p2"
GName(i) == IF i = 1 THEN "g1" ELSE "g2"
Names == {"p1", "p2", "g1", "g2"}
None  == 0          \* a state reference: None, or the id of a state object

VARIABLES
    kind,      \* which hooks the class of the optimizer overrides
    attrs,     \* the instance attributes that exist (self.__dict__ keys)
    t,         \* self.t      (meaningful when "t" \in attrs)
    tuples,    \* self.tuples (meaningful when "tuples" \in attrs)
    mem,       \* the caller's arrays, by name: [dev, val]
    smem,      \* the state objects made by init_state, by id: [dev, val]
    nalloc,    \* number of state objects allocated so far
    ncalls,    \* number of method calls made so far
    op,        \* the last method called
    args,      \* its arguments
    err,       \* the exception it raised, or "none"
    ret,       \* its return value
    hookLog,   \* update_one_cpu/gpu invocations of the last update() call
    accLog,    \* per-triple record of the last accumulate_grads() call
    updCalls,  \* history: update() calls since the last setup()
    updTotal,  \* history: update() calls since construction
    accPre,    \* history: gradient values before the current run of
               \*          consecutive accumulate_grads() calls
    accSum,    \* history: element-wise sum of the sources of that run
    accN       \* history: number of calls in that run

vars == <<kind, attrs, t, tuples, mem, smem, nalloc, ncalls, op, args, err,
          ret, hookLog, accLog, updCalls, updTotal, accPre, accSum, accN>>

Kinds == {"base", "cpu", "full"}

\* ------------------------------------------------- chainer.cuda primitives
\* cuda.using_device(x): the device of x is current inside the block; a
\* host array leaves the current device alone
using_device(a, cur) == IF IsGPUArray(a) THEN a.dev ELSE cur

\* cuda.to_cpu(x): host copy of a GPU array, a host array as is
to_cpu(a) == [a EXCEPT !.dev = CPU]

\* cuda.to_gpu(x): a GPU array as is, a host array copied to the current
\* device
to_gpu(a, cur) == IF IsGPUArray(a) THEN a ELSE [a EXCEPT !.dev = cur]

\* cuda.copy(x, out_device=d): a new array on device d with the values of x
copy(a, out_device) == [a EXCEPT !.dev = out_device]

\* ------------------------------------------------------------ _sqnorm etc.
_sqnorm(x) == VDot(x.val, x.val)

\* math.sqrt on an exact rational: the exact root when there is one,
\* otherwise the irrational root kept symbolically by its square
IsSquare(n) == \E r \in 0..n : r * r = n
Root(n)     == CHOOSE r \in 0..n : r * r = n
sqrt(q) ==
    IF IsSquare(q[1]) /\ IsSquare(q[2])
    THEN <<"exact", <<Root(q[1]), Root(q[2])>>>>
    ELSE <<"surd", q>>

\* norm > maxnorm for a norm returned by sqrt and a maxnorm >= 0
NormGt(norm, maxnorm) ==
    IF norm[1] = "exact" THEN RGt(norm[2], maxnorm)
    ELSE RGt(norm[2], RMul(maxnorm, maxnorm))

\* ------------------------------------------------------------ environment
InitMem(devs) ==
    [n \in Names |->
        CASE n = "p1" -> [dev |-> devs[1], val |-> <<R(1), R(2)>>]
          [] n = "g1" -> [dev |-> devs[1], val |-> <<R(3), R(4)>>]
          [] n = "p2" -> [dev |-> devs[2], val |-> <<R(2)>>]
          [] n = "g2" -> [dev |-> devs[2], val |-> <<R(0)>>]]

\* where the caller keeps its two parameter/gradient pairs: the first on
\* GPU 1 and the second on the host, or the first on the host and the
\* second on GPU 2
Worlds == {<<1, 0>>, <<0, 2>>}

\* the parameter/gradient sequences a caller passes to setup: no array twice,
\* the i-th gradient is the gradient of the i-th parameter wherever both
\* exist, the two lengths free
InjSeqs == {<<>>, <<1>>, <<1, 2>>, <<2, 1>>}
SetupInputs ==
    {<<[i \in DOMAIN ps |-> PName(ps[i])], [i \in DOMAIN gs |-> GName(gs[i])]>> :
        <<ps, gs>> \in {x \in InjSeqs \X InjSeqs :
            \A i \in DOMAIN x[1] \cap DOMAIN x[2] : x[1][i] = x[2][i]}}

Decays   == {<<1, 2>>}
MaxNorms == {<<5, 2>>, R(5)}

\* the values of the gradient arrays one worker hands to accumulate_grads
Fills == {R(1), R(-1)}

Init ==
    /\ kind \in Kinds
    /\ attrs = {}
    /\ t = 0
    /\ tuples = <<>>
    /\ \E devs \in Worlds : mem = InitMem(devs)
    /\ smem = <<>>
    /\ nalloc = 0
    /\ ncalls = 0
    /\ op = "new"
    /\ args = <<>>
    /\ err = "none"
    /\ ret = <<>>
    /\ hookLog = <<>>
    /\ accLog = <<>>
    /\ updCalls = 0
    /\ updTotal = 0
    /\ accPre = <<>>
    /\ accSum = <<>>
    /\ accN = 0

\* self.<a> can be read only once setup has assigned it: the class body
\* defines neither t nor tuples
HasAttr_classdefault(a) == TRUE

HasAttr(a) == a \in attrs

Configured == attrs = {"t", "tuples"}

\* what every call records about itself
Call(o, a, e, r) ==
    /\ op' = o
    /\ args' = a
    /\ err' = e
    /\ ret' = r

NoAccRun == accPre' = <<>> /\ accSum' = <<>> /\ accN' = 0

\* a method that reads a missing instance attribute raises AttributeError
\* before it has done anything
Raise(o, a) ==
    /\ Call(o, a, "AttributeError", <<>>)
    /\ hookLog' = <<>>
    /\ accLog' = <<>>
    /\ NoAccRun
    /\ ncalls < MaxCalls
    /\ ncalls' = ncalls + 1
    /\ UNCHANGED <<kind, attrs, t, tuples, mem, smem, nalloc,
                   updCalls, updTotal>>

\* --------------------------------------------------------------- setup
\* init_state_cpu / init_state_gpu: None (written <<>>) in the base class; an
\* overriding class returns a new scalar array (shape ()) holding 0 (written
\* <<array>>)
init_state_cpu(k, param, grad) ==
    IF k \in {"cpu", "full"} THEN <<[dev |-> param.dev, val |-> <<Zero>>]>>
    ELSE <<>>

init_state_gpu(k, param, grad) ==
    IF k = "full" THEN <<[dev |-> param.dev, val |-> <<Zero>>]>> ELSE <<>>

init_state(k, param, grad) ==
    IF IsGPUArray(param) THEN init_state_gpu(k, param, grad)
    ELSE init_state_cpu(k, param, grad)

Min(a, b) == IF a < b THEN a ELSE b

\* the loop of setup over zip(params, grads), from position i on
RECURSIVE SetupLoop(_, _, _, _)
SetupLoop(ps, gs, i, acc) ==
    IF i > Min(Len(ps), Len(gs)) THEN acc
    ELSE LET state == init_state(kind, mem[ps[i]], mem[gs[i]])
             id    == acc.nalloc + 1
         IN  IF state = <<>>
             THEN SetupLoop(ps, gs, i + 1,
                    [acc EXCEPT !.tuples = Append(@, [p |-> ps[i], g |-> gs[i], s |-> None])])
             ELSE SetupLoop(ps, gs, i + 1,
                    [tuples |-> Append(acc.tuples, [p |-> ps[i], g |-> gs[i], s |-> id]),
                     smem   |-> acc.smem @@ (id :> state[1]),
                     nalloc |-> id])

\* self.tuples = [] at the start of setup
tuples_kept == tuples

tuples_reset == <<>>

setup(params_grads) ==
    LET r == SetupLoop(params_grads[1], params_grads[2], 1,
                       [tuples |-> tuples_reset, smem |-> <<>>, nalloc |-> nalloc])
    IN  /\ ncalls < MaxCalls
        /\ ncalls' = ncalls + 1
        /\ attrs' = attrs \cup {"t", "tuples"}
        /\ t' = 0
        /\ tuples' = r.tuples
        /\ smem' = r.smem
        /\ nalloc' = r.nalloc
        /\ Call("setup", params_grads, "none", <<>>)
        /\ hookLog' = <<>>
        /\ accLog' = <<>>
        /\ updCalls' = 0
        /\ NoAccRun
        /\ UNCHANGED <<kind, mem, updTotal>>

\* the rest of one call that touches neither t, the tuples nor the states
Quiet(o, a, e, r) ==
    /\ Call(o, a, e, r)
    /\ hookLog' = <<>>
    /\ accLog' = <<>>
    /\ NoAccRun
    /\ ncalls < MaxCalls
    /\ ncalls' = ncalls + 1
    /\ UNCHANGED <<kind, attrs, t, tuples, smem, nalloc,
                   updCalls, updTotal>>

\* ------------------------------------------------------------ zero_grads
\* g.fill(0), under using_device(g) for a GPU array
fill(a, c) == [a EXCEPT !.val = VFill(@, c)]

RECURSIVE ZeroLoop(_, _)
ZeroLoop(i, m) ==
    IF i > Len(tuples) THEN m
    ELSE LET g == tuples[i].g
         IN  ZeroLoop(i + 1, [m EXCEPT ![g] = fill(m[g], Zero)])

zero_grads ==
    IF ~HasAttr("tuples") THEN Raise("zero_grads", <<>>)
    ELSE /\ mem' = ZeroLoop(1, mem)
         /\ Quiet("zero_grads", <<>>, "none", <<>>)

\* ---------------------------------------------------- compute_grads_norm
RECURSIVE SqnormLoop(_, _)
SqnormLoop(i, sqnorm) ==
    IF i > Len(tuples) THEN sqnorm
    ELSE SqnormLoop(i + 1, RAdd(sqnorm, _sqnorm(mem[tuples[i].g])))

GradsNorm == sqrt(SqnormLoop(1, Zero))

compute_grads_norm ==
    IF ~HasAttr("tuples") THEN Raise("compute_grads_norm", <<>>)
    ELSE /\ mem' = mem
         /\ Quiet("compute_grads_norm", <<>>, "none", GradsNorm)

\* ------------------------------------------------------------ clip_grads
RECURSIVE ClipLoop(_, _, _)
ClipLoop(i, m, c) ==
    IF i > Len(tuples) THEN m
    ELSE LET g == tuples[i].g
         IN  ClipLoop(i + 1, [m EXCEPT ![g].val = VScale(c, @)], c)

\* ratio = maxnorm / norm, for a norm that is an exact rational
ratio_inverted(maxnorm, norm) == RDiv(norm[2], maxnorm)

ratio(maxnorm, norm) == RDiv(maxnorm, norm[2])

clip_grads(maxnorm) ==
    IF ~HasAttr("tuples") THEN Raise("clip_grads", <<maxnorm>>)
    ELSE LET norm == GradsNorm
         IN  /\ IF NormGt(norm, maxnorm)
                THEN /\ norm[1] = "exact"
                     /\ mem' = ClipLoop(1, mem, ratio(maxnorm, norm))
                ELSE mem' = mem
             /\ Quiet("clip_grads", <<maxnorm>>, "none", <<>>)

\* ---------------------------------------------------------- weight_decay
\* both branches compute g += decay * p: the GPU one by an element-wise
\* kernel under using_device(p), the host one by numpy
RECURSIVE DecayLoop(_, _, _)
DecayLoop(i, m, decay) ==
    IF i > Len(tuples) THEN m
    ELSE LET p == tuples[i].p
             g == tuples[i].g
         IN  DecayLoop(i + 1,
                 [m EXCEPT ![g].val = VAdd(@, VScale(decay, m[p].val))], decay)

weight_decay(decay) ==
    IF ~HasAttr("tuples") THEN Raise("weight_decay", <<decay>>)
    ELSE /\ mem' = DecayLoop(1, mem, decay)
         /\ Quiet("weight_decay", <<decay>>, "none", <<>>)

\* ------------------------------------------------------ accumulate_grads
\* g_dst += x.  When x lives on another GPU than g_dst the kernel that runs
\* on the device of g_dst is handed memory of a foreign device: with peer
\* access between the two devices it adds the values, without it the launch
\* fails and g_dst keeps its values.
iadd(dst, x, peer) ==
    IF x.dev = dst.dev \/ peer
    THEN [ok |-> TRUE,  a |-> [dst EXCEPT !.val = VAdd(@, x.val)]]
    ELSE [ok |-> FALSE, a |-> dst]

\* the array accumulate_grads adds into g_dst for the source g_src, and the
\* device that is current while it does
Operand(g_dst, g_src) ==
    IF IsNdarray(g_dst) THEN to_cpu(g_src)
    ELSE LET cur == using_device(g_dst, CPU)
         IN  IF IsGPUArray(g_src) /\ g_dst.dev # g_src.dev
             THEN copy(g_src, g_src.dev)
             ELSE to_gpu(g_src, cur)

\* the loop over zip(self.tuples, grads), from position i on
RECURSIVE AccLoop(_, _, _, _)
AccLoop(grads, i, acc, peer) ==
    IF i > Min(Len(tuples), Len(grads)) THEN acc
    ELSE LET g     == tuples[i].g
             g_dst == acc.mem[g]
             x     == Operand(g_dst, grads[i])
             r     == iadd(g_dst, x, peer)
             entry == [dst |-> g_dst.dev, src |-> grads[i].dev,
                       cur |-> using_device(g_dst, CPU), operand |-> x.dev]
         IN  IF r.ok
             THEN AccLoop(grads, i + 1,
                     [acc EXCEPT !.mem[g] = r.a, !.log = Append(@, entry)], peer)
             ELSE [acc EXCEPT !.log = Append(@, entry), !.err = "CudaError"]

\* the gradient arrays of one worker, positionally matched to the triples:
\* all on the worker's device d, the i-th shaped like the i-th owned gradient
Sources ==
    {[i \in DOMAIN tuples |-> [dev |-> d, val |-> VFill(mem[tuples[i].g].val, f)]] :
        d \in Devices, f \in Fills}

GradVals(m) == [i \in DOMAIN tuples |-> m[tuples[i].g].val]
SrcVals(grads) == [i \in DOMAIN grads |-> grads[i].val]

accumulate_grads(grads, peer) ==
    IF ~HasAttr("tuples") THEN Raise("accumulate_grads", <<grads>>)
    ELSE LET r == AccLoop(grads, 1, [mem |-> mem, log |-> <<>>, err |-> "none"], peer)
         IN  /\ mem' = r.mem
             /\ Call("accumulate_grads", <<grads>>, r.err, <<>>)
             /\ accLog' = r.log
             /\ hookLog' = <<>>
             /\ IF accN = 1
                THEN /\ accPre' = accPre
                     /\ accSum' = [i \in DOMAIN accSum |-> VAdd(accSum[i], grads[i].val)]
                     /\ accN' = 2
                ELSE /\ accPre' = GradVals(mem)
                     /\ accSum' = SrcVals(grads)
                     /\ accN' = 1
             /\ ncalls < MaxCalls
             /\ ncalls' = ncalls + 1
             /\ UNCHANGED <<kind, attrs, t, tuples, smem, nalloc,
                            updCalls, updTotal>>

\* ---------------------------------------------------------------- update
\* update_one_cpu / update_one_gpu of an overriding class: one step of plain
\* gradient descent, param -= grad, and state += 1 in place when the triple
\* has a state
hook(acc, i, now) ==
    LET tp == tuples[i]
        m1 == [acc.mem EXCEPT ![tp.p].val = VSub(@, acc.mem[tp.g].val)]
        s1 == IF tp.s = None THEN acc.smem
              ELSE [acc.smem EXCEPT ![tp.s].val = VAdd(@, <<R(1)>>)]
    IN  [acc EXCEPT !.mem = m1, !.smem = s1,
                    !.log = Append(@, [i |-> i, param |-> tp.p, grad |-> tp.g,
                                       state |-> tp.s, t |-> now,
                                       cur |-> using_device(acc.mem[tp.p], CPU)])]

update_one_cpu(acc, i, now) ==
    IF kind \in {"cpu", "full"} THEN hook(acc, i, now)
    ELSE [acc EXCEPT !.err = "NotImplementedError"]

update_one_gpu_pass(acc, i, now) ==
    IF kind = "full" THEN hook(acc, i, now) ELSE acc

update_one_gpu(acc, i, now) ==
    IF kind = "full" THEN hook(acc, i, now)
    ELSE [acc EXCEPT !.err = "NotImplementedError"]

update_one(acc, i, now) ==
    IF IsGPUArray(acc.mem[tuples[i].p]) THEN update_one_gpu(acc, i, now)
    ELSE update_one_cpu(acc, i, now)

\* the loop of update over self.tuples, from position i on; now is self.t
RECURSIVE UpdateLoop(_, _, _)
UpdateLoop(i, acc, now) ==
    IF i > Len(tuples) THEN acc
    ELSE LET r == update_one(acc, i, now)
         IN  IF r.err # "none" THEN r ELSE UpdateLoop(i + 1, r, now)

\* self.t += 1 comes first: t_hook is self.t while the hooks run, t_after(e)
\* is self.t when update returns normally or with the exception e
t_hook_old == t

t_hook == t + 1

t_after_onsuccess(e) == IF e = "none" THEN t + 1 ELSE t

t_after(e) == t + 1

\* the loop of update only reads self.tuples
tuples_after_dropfailed(r) == SubSeq(tuples, 1, Len(r.log))

tuples_after(r) == tuples

update ==
    IF ~HasAttr("t") THEN Raise("update", <<>>)
    ELSE LET r == UpdateLoop(1, [mem |-> mem, smem |-> smem, log |-> <<>>,
                                 err |-> "none"], t_hook)
         IN  /\ ncalls < MaxCalls
             /\ ncalls' = ncalls + 1
             /\ t' = t_after(r.err)
             /\ mem' = r.mem
             /\ smem' = r.smem
             /\ hookLog' = r.log
             /\ accLog' = <<>>
             /\ Call("update", <<>>, r.err, <<>>)
             /\ updCalls' = updCalls + 1
             /\ updTotal' = updTotal + 1
             /\ NoAccRun
             /\ tuples' = tuples_after(r)
             /\ UNCHANGED <<kind, attrs, nalloc>>

Next ==
    \/ \E pg \in SetupInputs : setup(pg)
    \/ zero_grads
    \/ compute_grads_norm
    \/ \E maxnorm \in MaxNorms : clip_grads(maxnorm)
    \/ \E decay \in Decays : weight_decay(decay)
    \/ \E grads \in Sources, peer \in BOOLEAN : accumulate_grads(grads, peer)
    \/ update

Spec == Init /\ [][Next]_vars

\* =================================================================
\* Properties
\* =================================================================
GradNames == {tuples[i].g : i \in DOMAIN tuples}
Sign(n)   == IF n > 0 THEN 1 ELSE IF n < 0 THEN -1 ELSE 0

RECURSIVE TotalSq(_, _)
TotalSq(m, i) ==
    IF i > Len(tuples) THEN Zero
    ELSE RAdd(VDot(m[tuples[i].g].val, m[tuples[i].g].val), TotalSq(m, i + 1))

\* C1 (as stated): on a set-up optimizer t equals the number of update()
\* calls made so far, setup() included among the operations that leave t alone
C1_TCountsAllUpdates == Configured => t = updTotal

\* C1 (amended): every update() call on a set-up optimizer adds exactly 1 to
\* t, also when a hook raises; setup() sets t to 0; no other operation changes
\* t; so t is the number of update() calls since the latest setup()
C1_TCountsUpdatesSinceSetup ==
    /\ [](Configured => t = updCalls)
    /\ [][/\ (Configured /\ op' = "update") => t' = t + 1
          /\ op' = "setup" => t' = 0
          /\ (Configured /\ op' \notin {"update", "setup"}) => t' = t]_vars

C1_Witness ==
    /\ op = "update" /\ err = "NotImplementedError"
    /\ t = 1 /\ updTotal = 2

\* C2: after setup with n parameters and n gradients, t = 0 and the triples
\* are exactly (params[i], grads[i], init_state(params[i], grads[i])) for
\* i = 1..n in input order, with no triple and no state of an earlier setup
C2_SetupBuildsTriples ==
    (op = "setup" /\ Len(args[1]) = Len(args[2])) =>
        /\ Configured
        /\ t = 0
        /\ Len(tuples) = Len(args[1])
        /\ \A i \in DOMAIN tuples :
              /\ tuples[i].p = args[1][i]
              /\ tuples[i].g = args[2][i]
              /\ LET st == init_state(kind, mem[args[1][i]], mem[args[2][i]])
                 IN  IF st = <<>> THEN tuples[i].s = None
                     ELSE /\ tuples[i].s \in DOMAIN smem
                          /\ smem[tuples[i].s] = st[1]
        /\ DOMAIN smem = {tuples[i].s : i \in DOMAIN tuples} \ {None}
        /\ \A i, j \in DOMAIN tuples :
              (i # j /\ tuples[i].s # None) => tuples[i].s # tuples[j].s

C2_Witness ==
    /\ op = "setup" /\ Len(args[1]) = 2 /\ Len(args[2]) = 2
    /\ updTotal > 0 /\ kind = "full"

\* C3: before the first setup every other method raises at once, changes no
\* array and no state, and leaves the optimizer without attributes
C3_UnconfiguredFailsFast ==
    [][(attrs = {} /\ op' # "setup") =>
            /\ err' = "AttributeError"
            /\ mem' = mem
            /\ smem' = smem
            /\ attrs' = {}]_vars

C3_Witness ==
    /\ attrs = {} /\ op = "update" /\ err = "AttributeError" /\ ncalls = 2

\* C4 (as stated): setup with sequences of different lengths raises an error
C4_MismatchRaises ==
    (op = "setup" /\ Len(args[1]) # Len(args[2])) => err # "none"

\* C5 (as stated): on a set-up base optimizer every update() raises
\* NotImplementedError
C5_BaseUpdateAlwaysRaises ==
    (kind = "base" /\ op = "update" /\ Configured) => err = "NotImplementedError"

\* C5 (amended): on a base optimizer set up with at least one triple every
\* update() raises NotImplementedError, whether the first parameter is on the
\* host or on a GPU, and changes no parameter, gradient or state
C5_BaseUpdateRaisesIfNonEmpty ==
    [][(kind = "base" /\ Configured /\ op' = "update" /\ Len(tuples) > 0) =>
            /\ err' = "NotImplementedError"
            /\ mem' = mem
            /\ smem' = smem]_vars

C5_Witness ==
    /\ kind = "base" /\ op = "update" /\ err = "NotImplementedError"
    /\ Len(tuples) = 2 /\ IsGPUArray(mem[tuples[1].p])

\* C6: clip_grads(maxnorm), maxnorm > 0, with norm the L2 norm of all owned
\* gradients: norm <= maxnorm leaves every array as it is; norm > maxnorm
\* multiplies every gradient element by maxnorm / norm, so the norm becomes
\* maxnorm; parameters, states, t and the triples are unchanged either way
C6_ClipScalesByOneRatio ==
    [][(Configured /\ op' = "clip_grads") =>
        LET m2 == RMul(args'[1], args'[1])
            S  == TotalSq(mem, 1)
        IN  /\ RLe(S, m2) => mem' = mem
            /\ RGt(S, m2) =>
                  /\ \A n \in GradNames : \A k \in DOMAIN mem[n].val :
                        LET e  == mem[n].val[k]
                            e2 == mem'[n].val[k]
                        IN  /\ RMul(RMul(e2, e2), S) = RMul(RMul(e, e), m2)
                            /\ Sign(e2[1]) = Sign(e[1])
                  /\ TotalSq(mem', 1) = m2
            /\ \A n \in Names \ GradNames : mem'[n] = mem[n]
            /\ \A n \in Names : mem'[n].dev = mem[n].dev
            /\ smem' = smem
            /\ t' = t
            /\ tuples' = tuples
            /\ err' = "none"]_vars

C6_Witness ==
    /\ op = "clip_grads" /\ args[1] = <<5, 2>>
    /\ Len(tuples) = 1
    /\ mem["g1"].val = << <<3, 2>>, <<2, 1>> >>

C8_TuplesStable ==
    [][(Configured /\ op' # "setup") =>
            /\ tuples' = tuples
            /\ attrs' = attrs
            /\ DOMAIN smem' = DOMAIN smem
            /\ nalloc' = nalloc]_vars

C8_Witness ==
    /\ kind = "cpu" /\ op = "update" /\ err = "NotImplementedError"
    /\ Len(tuples) = 2 /\ Len(hookLog) = 1

\* C9: an update() call whose hooks all return runs the hook once per triple,
\* in triple order, on that triple's parameter, gradient and state, and each
\* hook sees t already incremented: t = k in the k-th update() since setup
C9_HooksSeeIncrementedT ==
    (op = "update" /\ err = "none" /\ Configured) =>
        /\ Len(hookLog) = Len(tuples)
        /\ \A i \in DOMAIN hookLog :
              /\ hookLog[i].i = i
              /\ hookLog[i].param = tuples[i].p
              /\ hookLog[i].grad = tuples[i].g
              /\ hookLog[i].state = tuples[i].s
              /\ hookLog[i].t = updCalls
        /\ t = updCalls

C9_Witness ==
    /\ op = "update" /\ err = "none" /\ Len(hookLog) = 2 /\ t = 2

\* C10 (as stated): when the owned gradient and the source are on two
\* different GPUs, the device of the owned gradient is current and the array
\* added into the owned gradient is on the device of the owned gradient
C10_OperandOnDestinationDevice ==
    \A k \in DOMAIN accLog :
        (accLog[k].dst # CPU /\ accLog[k].src # CPU /\ accLog[k].dst # accLog[k].src) =>
            /\ accLog[k].cur = accLog[k].dst
            /\ accLog[k].operand = accLog[k].dst

====
